---------------------------- MODULE Spec2Model ----------------------------
(***************************************************************************)
(* SuperBenchmark (src/main.py): a FastAPI service that keeps a list of    *)
(* benchmarking records in memory and serves their averages, over the      *)
(* whole list or over a time window.                                       *)
(*                                                                         *)
(* Two specifications:                                                     *)
(*   Spec     the process: module import (debug flag, seed loading or the  *)
(*            gate middleware), then requests served one at a time;        *)
(*   SpecAgg  compute_average alone, applied to bounded record sequences.  *)
(*                                                                         *)
(* Modelling conventions                                                   *)
(*   - a text (a path segment, a JSON string holding a timestamp) is a     *)
(*     sequence of lexical chunks, <<"2024-01-01", "T", "12:00:00">>;      *)
(*     datetime.fromisoformat is modelled as the parser of such sequences; *)
(*   - time is counted in units of 12 hours from 2024-01-01T00:00:00;      *)
(*   - a Python float produced by int / int is modelled as the exact       *)
(*     rational <<num, den>> in lowest terms (rounding is not modelled);   *)
(*   - a call's outcome is a record: it returns a value or raises an       *)
(*     exception, and carries the set of components the call went through, *)
(*     the argument compute_average was called with, if it was, and the    *)
(*     content of the module-level list after the call.                    *)
(***************************************************************************)
EXTENDS Integers, Sequences, FiniteSets, TLC

VARIABLES
    env,                    \* value of the environment variable SUPERBENCHMARK_DEBUG
    SUPERBENCHMARK_DEBUG,   \* the module-level flag (line 25)
    seed_file,              \* content of test_database.json, once opened
    benchmarking_results,   \* the module-level list (line 24)
    pc,                     \* "import" | "loading" | "serving" | "aborted" | "aggregator"
    load_i,                 \* position of load_test_data's loop in the file
    request,                \* <<last request received>>, <<>> before the first
    response,               \* <<the response to it>>, <<>> before the first
    results,                \* SpecAgg: the argument of compute_average
    averages                \* SpecAgg: <<outcome>> of the last call, <<>> before

vars == <<env, SUPERBENCHMARK_DEBUG, seed_file, benchmarking_results, pc, load_i,
          request, response, results, averages>>

serverVars == <<env, SUPERBENCHMARK_DEBUG, seed_file, benchmarking_results, pc,
                load_i, request, response>>

-----------------------------------------------------------------------------
(* Bounds *)

MaxSeedLen == 3     \* entries in the seed file
MaxAggLen == 3      \* SpecAgg: length of compute_average's argument
MaxVal == 2         \* SpecAgg: largest token_count / time_to_first_token

-----------------------------------------------------------------------------
(* Texts and datetime.fromisoformat *)

DateChunks == {"2024-01-01", "2024-01-02"}
TimeChunks == {"00:00:00", "12:00:00"}
OffsetChunks == {"+00:00", "+12:00"}
Separators == {"T", " "}

DayOf(d) == IF d = "2024-01-01" THEN 0 ELSE 1
HalfOf(t) == IF t = "00:00:00" THEN 0 ELSE 1
OffsetOf(o) == IF o = "+00:00" THEN 0 ELSE 1

\* A datetime: wall-clock reading, and the UTC offset when it carries one.
Naive(w) == [aware |-> FALSE, wall |-> w, off |-> 0]
Aware(w, o) == [aware |-> TRUE, wall |-> w, off |-> o]

Parsed(dt) == [ok |-> TRUE, value |-> dt]
ValueError == [ok |-> FALSE, value |-> Naive(0)]

fromisoformat(s) ==
    IF Len(s) = 1 /\ s[1] \in DateChunks
    THEN Parsed(Naive(2 * DayOf(s[1])))
    ELSE IF Len(s) = 3 /\ s[1] \in DateChunks /\ s[2] \in Separators
            /\ s[3] \in TimeChunks
    THEN Parsed(Naive(2 * DayOf(s[1]) + HalfOf(s[3])))
    ELSE IF Len(s) = 4 /\ s[1] \in DateChunks /\ s[2] \in Separators
            /\ s[3] \in TimeChunks /\ s[4] \in OffsetChunks
    THEN Parsed(Aware(2 * DayOf(s[1]) + HalfOf(s[3]), OffsetOf(s[4])))
    ELSE ValueError

\* datetime.__le__: two naive values compare by wall clock, two aware values
\* by instant (wall - offset); a naive and an aware value raise TypeError.
Comparable(a, b) == a.aware = b.aware
Instant(a) == a.wall - a.off
datetime_le(a, b) == Instant(a) <= Instant(b)


-----------------------------------------------------------------------------
(* Outcomes of calls *)

NoBody == <<>>

\* The call returned `value`.
Return(value, touched, agg_arg) ==
    [kind |-> "return", exc |-> "", status |-> 0, body |-> <<value>>,
     touched |-> touched, agg_arg |-> agg_arg, store |-> benchmarking_results]

\* The call raised exception `exc` (status is HTTPException.status_code).
Raise(exc, status, touched, agg_arg) ==
    [kind |-> "raise", exc |-> exc, status |-> status, body |-> NoBody,
     touched |-> touched, agg_arg |-> agg_arg, store |-> benchmarking_results]

\* raise HTTPException(status_code=status, detail=detail)
HTTPException(status, detail, touched) ==
    [Raise("HTTPException", status, touched, <<>>) EXCEPT !.body = <<detail>>]

\* The HTTP response sent for outcome o.
Response(status, body, o) ==
    [o EXCEPT !.kind = "response", !.exc = "", !.status = status, !.body = body]

-----------------------------------------------------------------------------
(* BenchmarkingResult and compute_average *)

BenchmarkingResult(id, prompt, generated, tc, ttft, tpot, total, ts) ==
    [request_id |-> id, prompt_text |-> prompt, generated_text |-> generated,
     token_count |-> tc, time_to_first_token |-> ttft,
     time_per_output_token |-> tpot, total_generation_time |-> total,
     timestamp |-> ts]

RECURSIVE GCD(_, _)
GCD(a, b) == IF b = 0 THEN a ELSE GCD(b, a % b)

\* int / int for a non-zero divisor: the quotient, in lowest terms.
TrueDiv(a, b) == LET g == GCD(a, b) IN <<a \div g, b \div g>>

\* The builtin sum() over a sequence of integers.
RECURSIVE sum(_)
sum(xs) == IF xs = <<>> THEN 0 ELSE xs[1] + sum(Tail(xs))

\* A copy-and-paste slip: the third total reads the second field.
compute_average_mixed_fields(rs) ==
    LET count == Len(rs)
        total(f) == sum([i \in 1..Len(rs) |-> rs[i][f]])
    IN  IF count = 0
        THEN Raise("ZeroDivisionError", 0, {"compute_average"}, <<rs>>)
        ELSE Return(
               [average_token_count |-> TrueDiv(total("token_count"), count),
                average_time_to_first_token |->
                    TrueDiv(total("time_to_first_token"), count),
                average_time_per_output_token |->
                    TrueDiv(total("time_to_first_token"), count),
                average_total_generation_time |->
                    TrueDiv(total("total_generation_time"), count)],
               {"compute_average"}, <<rs>>)

\* lines 73-85.  The first division raises ZeroDivisionError when count = 0.
compute_average(rs) ==
    LET count == Len(rs)
        total_token_count == sum([i \in 1..Len(rs) |-> rs[i].token_count])
        total_time_to_first_token ==
            sum([i \in 1..Len(rs) |-> rs[i].time_to_first_token])
        total_time_per_output_token ==
            sum([i \in 1..Len(rs) |-> rs[i].time_per_output_token])
        total_generation_time ==
            sum([i \in 1..Len(rs) |-> rs[i].total_generation_time])
    IN  IF count = 0
        THEN Raise("ZeroDivisionError", 0, {"compute_average"}, <<rs>>)
        ELSE Return(
               [average_token_count |-> TrueDiv(total_token_count, count),
                average_time_to_first_token |->
                    TrueDiv(total_time_to_first_token, count),
                average_time_per_output_token |->
                    TrueDiv(total_time_per_output_token, count),
                average_total_generation_time |->
                    TrueDiv(total_generation_time, count)],
               {"compute_average"}, <<rs>>)

-----------------------------------------------------------------------------
(* The seed file and load_test_data *)

\* JSON values: <<"int", n>>, <<"str", s>>; <<"absent">> for a missing key.
JInt(n) == <<"int", n>>
JStr(s) == <<"str", s>>
JAbsent == <<"absent">>

Item(id, tc, ttft, tpot, total, ts) ==
    [request_id |-> JStr(id), prompt_text |-> JStr("p"),
     generated_text |-> JStr("g"), token_count |-> tc,
     time_to_first_token |-> JInt(ttft), time_per_output_token |-> JInt(tpot),
     total_generation_time |-> JInt(total), timestamp |-> ts]

\* Sample entries of the seed file: four well-formed (three without an
\* offset, one with), three that cannot be loaded.
GoodItems ==
    { Item("r1", JInt(10), 100, 5, 150, JStr(<<"2024-01-01", "T", "00:00:00">>)),
      Item("r2", JInt(20), 200, 10, 400, JStr(<<"2024-01-01", "T", "12:00:00">>)),
      Item("r3", JInt(30), 50, 1, 80, JStr(<<"2024-01-02">>)),
      Item("r4", JInt(7), 3, 2, 17,
           JStr(<<"2024-01-01", "T", "12:00:00", "+00:00">>)) }

BadItems ==
    { Item("b1", JInt(1), 1, 1, 2, JStr(<<"not-a-date">>)),
      Item("b2", JStr("many"), 1, 1, 2, JStr(<<"2024-01-01">>)),
      Item("b3", JInt(1), 1, 1, 2, JAbsent) }

SeedItems == GoodItems \cup BadItems

RECURSIVE SeqsUpTo(_, _)
SeqsUpTo(S, n) ==
    IF n = 0 THEN {<<>>}
    ELSE LET shorter == SeqsUpTo(S, n - 1)
         IN  shorter \cup {Append(q, x) : q \in {r \in shorter : Len(r) = n - 1}, x \in S}

\* test_database.json: absent, not JSON, a JSON array, an object without the
\* key "benchmarking_results", or an object with that key.
SeedFile(kind, items) == [kind |-> kind, items |-> items]
Unopened == SeedFile("unopened", <<>>)
SeedFiles ==
    { SeedFile(k, <<>>) : k \in {"missing", "malformed", "array", "nokey"} }
    \cup { SeedFile("object", q) : q \in SeqsUpTo(SeedItems, MaxSeedLen) }

\* lines 30-32: open, json.load, data.get('benchmarking_results', []).
\* The entries to iterate over, or the exception raised.
open_and_parse(file) ==
    IF file.kind = "missing" THEN Raise("FileNotFoundError", 0, {}, <<>>)
    ELSE IF file.kind = "malformed" THEN Raise("JSONDecodeError", 0, {}, <<>>)
    ELSE IF file.kind = "array" THEN Raise("AttributeError", 0, {}, <<>>)
    ELSE IF file.kind = "nokey" THEN Return(<<>>, {}, <<>>)
    ELSE Return(file.items, {}, <<>>)

IsInt(v) == v[1] = "int"
IsStr(v) == v[1] = "str"

\* lines 33-34: one iteration of the loop, the record built or the exception.
load_item(item) ==
    IF item.timestamp[1] = "absent" THEN Raise("KeyError", 0, {}, <<>>)
    ELSE IF ~IsStr(item.timestamp) THEN Raise("TypeError", 0, {}, <<>>)
    ELSE IF ~fromisoformat(item.timestamp[2]).ok THEN Raise("ValueError", 0, {}, <<>>)
    ELSE IF ~(/\ IsStr(item.request_id) /\ IsStr(item.prompt_text)
              /\ IsStr(item.generated_text) /\ IsInt(item.token_count)
              /\ IsInt(item.time_to_first_token)
              /\ IsInt(item.time_per_output_token)
              /\ IsInt(item.total_generation_time))
    THEN Raise("ValidationError", 0, {}, <<>>)
    ELSE Return(BenchmarkingResult(item.request_id[2], item.prompt_text[2],
                    item.generated_text[2], item.token_count[2],
                    item.time_to_first_token[2], item.time_per_output_token[2],
                    item.total_generation_time[2],
                    fromisoformat(item.timestamp[2]).value),
                {}, <<>>)


-----------------------------------------------------------------------------
(* The HTTP layer *)

\* The handler averaging all records but the first.
get_average_results_drops_first ==
    IF benchmarking_results = <<>>
    THEN HTTPException(404, "No benchmarking results found.",
                       {"get_average_results", "benchmarking_results"})
    ELSE LET o == compute_average(Tail(benchmarking_results))
         IN  [o EXCEPT !.touched =
                  @ \cup {"get_average_results", "benchmarking_results"}]

\* The handler without its emptiness check.
get_average_results_unchecked ==
    LET o == compute_average(benchmarking_results)
    IN  [o EXCEPT !.touched =
             @ \cup {"get_average_results", "benchmarking_results"}]

\* lines 47-52
get_average_results ==
    IF benchmarking_results = <<>>
    THEN HTTPException(404, "No benchmarking results found.",
                       {"get_average_results", "benchmarking_results"})
    ELSE LET o == compute_average(benchmarking_results)
         IN  [o EXCEPT !.touched =
                  @ \cup {"get_average_results", "benchmarking_results"}]

\* Only start_time is parsed inside the try block.
parse_window_start_only(start_time, end_time) ==
    LET start == fromisoformat(start_time)
        end == fromisoformat(end_time)
    IN  [ok |-> start.ok, start_dt |-> start.value, end_dt |-> end.value]

\* lines 57-61: both path segments are parsed inside one try block; a
\* ValueError from either becomes HTTPException(400).
parse_window(start_time, end_time) ==
    LET start == fromisoformat(start_time)
        end == fromisoformat(end_time)
    IN  [ok |-> start.ok /\ end.ok, start_dt |-> start.value, end_dt |-> end.value]

\* line 64: the chained comparison start_dt <= result.timestamp <= end_dt.
\* The second comparison is made only when the first is true; comparing a
\* datetime that carries an offset with one that carries none raises TypeError.
window_raises(start_dt, ts, end_dt) ==
    \/ ~Comparable(start_dt, ts)
    \/ datetime_le(start_dt, ts) /\ ~Comparable(ts, end_dt)

\* The window with its upper bound excluded.
window_test_exclusive(start_dt, ts, end_dt) ==
    datetime_le(start_dt, ts) /\ datetime_le(ts, end_dt) /\ ~datetime_le(end_dt, ts)

window_test(start_dt, ts, end_dt) ==
    datetime_le(start_dt, ts) /\ datetime_le(ts, end_dt)

\* lines 63-65: the list comprehension, or the TypeError it raises.
filter_results(start_dt, end_dt) ==
    LET in_window(r) == window_test(start_dt, r.timestamp, end_dt)
    IN  IF \E i \in 1..Len(benchmarking_results) :
               window_raises(start_dt, benchmarking_results[i].timestamp, end_dt)
        THEN Raise("TypeError", 0, {"benchmarking_results"}, <<>>)
        ELSE Return(SelectSeq(benchmarking_results, in_window),
                    {"benchmarking_results"}, <<>>)

\* lines 67-70
average_of_filtered(filtered_results) ==
    IF filtered_results = <<>>
    THEN HTTPException(404,
           "No benchmarking results found in the specified time window.", {})
    ELSE compute_average(filtered_results)

\* lines 55-70
get_average_results_in_window(start_time, end_time) ==
    LET here == {"get_average_results_in_window"}
        parsed == parse_window(start_time, end_time)
        filtered == filter_results(parsed.start_dt, parsed.end_dt)
        o == average_of_filtered(filtered.body[1])
    IN  IF ~parsed.ok
        THEN HTTPException(400, "Invalid datetime format. Use ISO 8601 format.",
                           here)
        ELSE IF filtered.kind = "raise"
        THEN [filtered EXCEPT !.touched = @ \cup here]
        ELSE [o EXCEPT !.touched = @ \cup here \cup filtered.touched]

\* A request: a method and a path, the path a sequence of segments, each
\* segment a text.
Request(method, path) == [method |-> method, path |-> path]

IsAveragePath(path) ==
    Len(path) = 2 /\ path[1] = <<"results">> /\ path[2] = <<"average">>
IsWindowPath(path) ==
    Len(path) = 4 /\ path[1] = <<"results">> /\ path[2] = <<"average">>

\* lines 47 and 55: the two routes registered with app.get, tried in order.
\* A path no route matches is answered 404, a matching path with another
\* method 405; a handler's return value becomes a 200 JSON response.
Router(req) ==
    LET o == IF IsAveragePath(req.path) THEN get_average_results
             ELSE get_average_results_in_window(req.path[3], req.path[4])
    IN  IF ~IsAveragePath(req.path) /\ ~IsWindowPath(req.path)
        THEN HTTPException(404, "Not Found", {"router"})
        ELSE IF req.method # "GET"
        THEN HTTPException(405, "Method Not Allowed", {"router"})
        ELSE IF o.kind = "return"
        THEN Response(200, o.body, [o EXCEPT !.touched = @ \cup {"router"}])
        ELSE [o EXCEPT !.touched = @ \cup {"router"}]

\* lines 42-44: the middleware installed when the debug flag is off.
not_ready_middleware(req) ==
    HTTPException(503, "Feature not ready for live yet. Enable DEBUG mode.",
                  {"not_ready_middleware"})

\* line 9: FastAPI() wraps the router in ExceptionMiddleware, which turns an
\* HTTPException raised beneath it into a response with its status code ...
ExceptionMiddleware(o) ==
    IF o.kind = "raise" /\ o.exc = "HTTPException"
    THEN Response(o.status, o.body, o)
    ELSE o

\* ... and puts ServerErrorMiddleware outermost, which answers any exception
\* that reaches it with 500.
ServerErrorMiddleware(o) ==
    IF o.kind = "raise"
    THEN Response(500, <<"Internal Server Error">>, o)
    ELSE o

\* The application as built by lines 9 and 39-55.  Middleware added with
\* app.middleware("http") sits between ServerErrorMiddleware and
\* ExceptionMiddleware: an exception it raises is outside ExceptionMiddleware.
app(req) ==
    ServerErrorMiddleware(
        IF SUPERBENCHMARK_DEBUG
        THEN ExceptionMiddleware(Router(req))
        ELSE not_ready_middleware(req))

-----------------------------------------------------------------------------
(* The process *)

\* The environment variable: unset (<<>>) or set to a string (<<s>>).
EnvValues == {<<>>, <<"True">>, <<"1">>}

getenv(e, default) == IF e = <<>> THEN default ELSE e[1]

\* str.lower on the strings above and on the default.
lower(s) ==
    IF s \in {"True", "TRUE", "true"} THEN "true"
    ELSE IF s \in {"False", "FALSE", "false"} THEN "false"
    ELSE s

\* line 25
debug_flag(e) == lower(getenv(e, "False")) = "true"

\* Path segments tried as start_time and end_time.
GoodStrings ==
    { <<"2024-01-01">>,
      <<"2024-01-01", "T", "12:00:00">>,
      <<"2024-01-02", "T", "00:00:00">>,
      <<"2024-01-01", "T", "12:00:00", "+00:00">>,
      <<"2024-01-02", "T", "00:00:00", "+12:00">> }

BadStrings ==
    { <<"not-a-date">>, <<"2024-13-01">>, <<"2024-01-01", "T">> }

RequestStrings == GoodStrings \cup BadStrings

AverageRequest == Request("GET", << <<"results">>, <<"average">> >>)
WindowRequest(s, e) == Request("GET", << <<"results">>, <<"average">>, s, e >>)

Requests ==
    { AverageRequest,
      Request("POST", AverageRequest.path),
      Request("GET", << <<"nope">> >>),
      Request("POST", WindowRequest(<<"2024-01-01">>, <<"2024-01-02">>).path) }
    \cup { WindowRequest(s, e) : s, e \in RequestStrings }

\* The state once lines 1-25 have run.
Init ==
    /\ env \in EnvValues
    /\ SUPERBENCHMARK_DEBUG = debug_flag(env)
    /\ seed_file = Unopened
    /\ benchmarking_results = <<>>
    /\ pc = "import"
    /\ load_i = 0
    /\ request = <<>>
    /\ response = <<>>
    /\ results = <<>>
    /\ averages = <<>>

\* The seed is loaded whatever the flag.
loads_seed_always == TRUE

\* Whether line 39 takes the branch that calls load_test_data.
loads_seed == SUPERBENCHMARK_DEBUG

\* lines 39-44, up to the start of load_test_data's loop: with the flag on the
\* seed file is opened and parsed (lines 30-32), and an exception there is
\* re-raised by line 36 and ends the import; with the flag off the gate
\* middleware is installed and the import completes.
Startup ==
    /\ pc = "import"
    /\ IF loads_seed
       THEN \E file \in SeedFiles :
               /\ seed_file' = file
               /\ IF open_and_parse(file).kind = "raise"
                  THEN /\ pc' = "aborted"
                       /\ load_i' = load_i
                  ELSE /\ pc' = "loading"
                       /\ load_i' = 1
       ELSE /\ pc' = "serving"
            /\ UNCHANGED <<seed_file, load_i>>
    /\ UNCHANGED <<env, SUPERBENCHMARK_DEBUG, benchmarking_results,
                   request, response, results, averages>>

\* The list after line 34 has appended record r.
append_result(r) == Append(benchmarking_results, r)

\* The try block inside the loop: a bad entry is skipped.
LoadItemSkipsBad ==
    /\ pc = "loading"
    /\ load_i <= Len(open_and_parse(seed_file).body[1])
    /\ LET o == load_item(open_and_parse(seed_file).body[1][load_i])
       IN  /\ benchmarking_results' =
                 IF o.kind = "raise" THEN benchmarking_results
                 ELSE append_result(o.body[1])
           /\ load_i' = load_i + 1
           /\ pc' = pc
    /\ UNCHANGED <<env, SUPERBENCHMARK_DEBUG, seed_file, request, response,
                   results, averages>>

\* lines 32-36: one iteration of the loop.  An exception is re-raised by
\* line 36 and ends the import; what was appended before stays in the list.
LoadItem ==
    /\ pc = "loading"
    /\ load_i <= Len(open_and_parse(seed_file).body[1])
    /\ LET o == load_item(open_and_parse(seed_file).body[1][load_i])
       IN  IF o.kind = "raise"
           THEN /\ pc' = "aborted"
                /\ UNCHANGED <<benchmarking_results, load_i>>
           ELSE /\ benchmarking_results' = append_result(o.body[1])
                /\ load_i' = load_i + 1
                /\ pc' = pc
    /\ UNCHANGED <<env, SUPERBENCHMARK_DEBUG, seed_file, request, response,
                   results, averages>>

\* The loop is exhausted: load_test_data returns, the import completes and
\* the server starts.
LoadDone ==
    /\ pc = "loading"
    /\ load_i > Len(open_and_parse(seed_file).body[1])
    /\ pc' = "serving"
    /\ UNCHANGED <<env, SUPERBENCHMARK_DEBUG, seed_file, benchmarking_results,
                   load_i, request, response, results, averages>>

\* One request, from its arrival to its response.
Serve ==
    /\ pc = "serving"
    /\ \E req \in Requests :
          LET o == app(req)
          IN  /\ request' = <<req>>
              /\ response' = <<o>>
              /\ benchmarking_results' = o.store
    /\ UNCHANGED <<env, SUPERBENCHMARK_DEBUG, seed_file, pc, load_i, results,
                   averages>>

Next == Startup \/ LoadItem \/ LoadDone \/ Serve

Spec == Init /\ [][Next]_vars

-----------------------------------------------------------------------------
(* compute_average alone *)

\* Records whose fields are tied as in a real measurement: the total time is
\* the time to the first token plus the time of the remaining tokens.
AggRecord(tc, ttft) ==
    BenchmarkingResult("r", "p", "g", tc, ttft, 1 + (tc % 2),
                       ttft + (1 + (tc % 2)) * tc, Naive(0))

AggRecords == {AggRecord(tc, ttft) : tc \in 0..MaxVal, ttft \in 0..MaxVal}

InitAgg ==
    /\ env = <<>>
    /\ SUPERBENCHMARK_DEBUG = debug_flag(env)
    /\ seed_file = Unopened
    /\ benchmarking_results = <<>>
    /\ pc = "aggregator"
    /\ load_i = 0
    /\ request = <<>>
    /\ response = <<>>
    /\ results \in SeqsUpTo(AggRecords, MaxAggLen)
    /\ averages = <<>>

\* compute_average(results); the list passed is read back after the call.
Call ==
    /\ pc = "aggregator"
    /\ LET o == compute_average(results)
       IN  /\ averages' = <<o>>
           /\ results' = o.agg_arg[1]
    /\ UNCHANGED serverVars

Swap(q, i) == [q EXCEPT ![i] = q[i + 1], ![i + 1] = q[i]]

\* The caller exchanges two neighbours of the list and calls again.
Reorder ==
    /\ pc = "aggregator"
    /\ averages # <<>>
    /\ \E i \in 1..(Len(results) - 1) :
          LET o == compute_average(Swap(results, i))
          IN  /\ averages' = <<o>>
              /\ results' = o.agg_arg[1]
    /\ UNCHANGED serverVars

NextAgg == Call \/ Reorder

SpecAgg == InitAgg /\ [][NextAgg]_vars

-----------------------------------------------------------------------------
(* Vocabulary of the properties, defined without the handlers *)

Req == request[1]
Resp == response[1]
Served == response # <<>>

AverageKeys ==
    {"average_token_count", "average_time_to_first_token",
     "average_time_per_output_token", "average_total_generation_time"}

\* The total of field f over the records of rs at the indices I.
RECURSIVE FieldTotal(_, _, _)
FieldTotal(rs, I, f) ==
    IF I = {} THEN 0
    ELSE LET i == CHOOSE j \in I : TRUE
         IN  rs[i][f] + FieldTotal(rs, I \ {i}, f)

\* v is the rational total / n.
IsQuotient(v, total, n) == v[2] > 0 /\ v[1] * n = total * v[2]

\* m maps the four keys to the means of the four fields over rs at I.
IsMeansOver(m, rs, I) ==
    /\ DOMAIN m = AverageKeys
    /\ IsQuotient(m.average_token_count,
                  FieldTotal(rs, I, "token_count"), Cardinality(I))
    /\ IsQuotient(m.average_time_to_first_token,
                  FieldTotal(rs, I, "time_to_first_token"), Cardinality(I))
    /\ IsQuotient(m.average_time_per_output_token,
                  FieldTotal(rs, I, "time_per_output_token"), Cardinality(I))
    /\ IsQuotient(m.average_total_generation_time,
                  FieldTotal(rs, I, "total_generation_time"), Cardinality(I))

Handlers == {"router", "get_average_results", "get_average_results_in_window"}

IsGetAverage == Served /\ Req = AverageRequest
IsGetWindow == Served /\ Req.method = "GET" /\ IsWindowPath(Req.path)
StartText == Req.path[3]
EndText == Req.path[4]

\* a <= b as points in time, where the two can be compared.
Before(a, b) == Comparable(a, b) /\ Instant(a) <= Instant(b)
SameTime(a, b) == Comparable(a, b) /\ Instant(a) = Instant(b)

\* Indices of the stored records r with start <= r.timestamp <= end.
InWindow(start, end) ==
    {i \in 1..Len(benchmarking_results) :
        /\ Before(start, benchmarking_results[i].timestamp)
        /\ Before(benchmarking_results[i].timestamp, end)}

Stamps == {benchmarking_results[i].timestamp : i \in 1..Len(benchmarking_results)}
IsMinStamp(d) == (\E t \in Stamps : SameTime(d, t)) /\ \A t \in Stamps : Before(d, t)
IsMaxStamp(d) == (\E t \in Stamps : SameTime(d, t)) /\ \A t \in Stamps : Before(t, d)

-----------------------------------------------------------------------------
(* Properties *)

\* C1: in gated mode (debug flag off) every request, whatever its path or
\* method, is answered with status 503, and neither a handler, nor
\* compute_average, nor the record list is consulted.
C1_GatedAnswers503 ==
    (Served /\ ~SUPERBENCHMARK_DEBUG) =>
        /\ Resp.status = 503
        /\ Resp.touched \cap (Handlers \cup {"compute_average", "benchmarking_results"}) = {}
        /\ Resp.agg_arg = <<>>

\* C2: in active mode GET /results/average answers 404 exactly when the
\* record list is empty, and otherwise 200 with the four means taken over
\* every stored record, each counted once.
C2_AverageOverWholeStore ==
    (IsGetAverage /\ SUPERBENCHMARK_DEBUG) =>
        /\ (Resp.status = 404) <=> (benchmarking_results = <<>>)
        /\ benchmarking_results # <<>> =>
              /\ Resp.status = 200
              /\ IsMeansOver(Resp.body[1], benchmarking_results,
                             1..Len(benchmarking_results))

C2_Witness ==
    /\ IsGetAverage /\ SUPERBENCHMARK_DEBUG
    /\ Len(benchmarking_results) = 3
    /\ Resp.status = 200
    /\ Resp.body[1].average_token_count = <<20, 1>>

\* C3: in active mode, for parseable start and end, the windowed endpoint
\* averages exactly the stored records r with start <= r.timestamp <= end
\* (both bounds included) and answers 404 exactly when there is none.
C3_WindowIsInclusiveSet ==
    (IsGetWindow /\ SUPERBENCHMARK_DEBUG
       /\ StartText \in GoodStrings /\ EndText \in GoodStrings) =>
        LET I == InWindow(fromisoformat(StartText).value,
                          fromisoformat(EndText).value)
        IN  /\ (Resp.status = 404) <=> (I = {})
            /\ I # {} => /\ Resp.status = 200
                         /\ IsMeansOver(Resp.body[1], benchmarking_results, I)

\* C4: in active mode a windowed request with an unparseable start or end is
\* answered 400, and the record list is not read.
C4_BadTimestampIs400 ==
    (IsGetWindow /\ SUPERBENCHMARK_DEBUG
       /\ (StartText \in BadStrings \/ EndText \in BadStrings)) =>
        /\ Resp.status = 400
        /\ "benchmarking_results" \notin Resp.touched
        /\ Resp.agg_arg = <<>>

C4_Witness ==
    /\ IsGetWindow /\ SUPERBENCHMARK_DEBUG
    /\ StartText = <<"2024-01-01">> /\ EndText \in BadStrings
    /\ benchmarking_results # <<>>
    /\ Before(Naive(0), benchmarking_results[1].timestamp)
    /\ Resp.status = 400

\* C5: in active mode every GET to either endpoint ends in 200, 400 or 404,
\* never in an unhandled error answered 500.
C5_OnlyDocumentedOutcomes ==
    ((IsGetAverage \/ IsGetWindow) /\ SUPERBENCHMARK_DEBUG) =>
        Resp.status \in {200, 400, 404}

\* C6: for a non-empty record list, the windowed endpoint asked for the
\* window from the least to the greatest stored timestamp answers as
\* GET /results/average does: same status, same four averages.
C6_FullWindowEqualsAverage ==
    (IsGetWindow /\ SUPERBENCHMARK_DEBUG /\ benchmarking_results # <<>>
       /\ StartText \in GoodStrings /\ EndText \in GoodStrings
       /\ IsMinStamp(fromisoformat(StartText).value)
       /\ IsMaxStamp(fromisoformat(EndText).value)) =>
        /\ Resp.status = app(AverageRequest).status
        /\ Resp.body = app(AverageRequest).body

C6_Witness ==
    /\ IsGetWindow /\ SUPERBENCHMARK_DEBUG
    /\ Len(benchmarking_results) = 3
    /\ Cardinality(Stamps) = 3
    /\ IsMinStamp(fromisoformat(StartText).value)
    /\ IsMaxStamp(fromisoformat(EndText).value)
    /\ Resp.status = 200

\* Once called on a non-empty sequence, the outcome is the four means.
C7_Means ==
    (averages # <<>> /\ results # <<>>) =>
        /\ averages[1].kind = "return"
        /\ IsMeansOver(averages[1].body[1], results, 1..Len(results))

\* A step keeps the averages of a non-empty sequence, keeps the records it
\* holds, and a plain call keeps their order too.
C7_OrderAndFrame ==
    /\ (averages # <<>> /\ results # <<>>) => averages'[1].body = averages[1].body
    /\ Call => results' = results
    /\ \A r \in AggRecords :
          Cardinality({i \in 1..Len(results') : results'[i] = r})
              = Cardinality({i \in 1..Len(results) : results[i] = r})

\* C7: for a non-empty sequence compute_average returns exactly the four
\* keys, each the field's total over all records divided by their number;
\* the result does not change when the records are reordered, and the
\* sequence passed is left as it was.
C7_ComputeAverage == []C7_Means /\ [][C7_OrderAndFrame]_vars

C7_Witness ==
    /\ averages # <<>> /\ Len(results) = 3
    /\ results[1] # results[2] /\ results[2] # results[3]
    /\ averages[1].body[1].average_token_count[2] = 3
    /\ averages[1].body[1].average_time_per_output_token
           # averages[1].body[1].average_time_to_first_token

\* C8: the record list is written only during startup and only in active
\* mode: no request, whatever its answer, changes it, and in gated mode it
\* is empty in every state.
C8_WrittenOnlyAtStartup ==
    /\ [](~SUPERBENCHMARK_DEBUG => benchmarking_results = <<>>)
    /\ [][/\ pc = "serving" => benchmarking_results' = benchmarking_results
          /\ benchmarking_results' # benchmarking_results =>
                (pc = "loading" /\ SUPERBENCHMARK_DEBUG /\ ~Served)]_vars

C8_Witness ==
    /\ Served /\ SUPERBENCHMARK_DEBUG
    /\ Resp.status = 404
    /\ Len(benchmarking_results) = 2

\* C9: seed loading is all or nothing: if the file is missing or malformed,
\* or any entry cannot be loaded, startup aborts and no request is ever
\* served; when requests are served in active mode the list holds one record
\* per entry of the file, in file order.
C9_NoPartialLoad ==
    /\ pc = "aborted" => ~Served
    /\ (pc = "aborted" /\ seed_file.kind = "object") =>
          \E i \in 1..Len(seed_file.items) : seed_file.items[i] \in BadItems
    /\ (SUPERBENCHMARK_DEBUG /\ (pc = "serving" \/ Served)) =>
          /\ seed_file.kind \in {"object", "nokey"}
          /\ Len(benchmarking_results) = Len(seed_file.items)
          /\ \A i \in 1..Len(seed_file.items) :
                /\ seed_file.items[i] \in GoodItems
                /\ benchmarking_results[i].request_id
                       = seed_file.items[i].request_id[2]
                /\ benchmarking_results[i].token_count
                       = seed_file.items[i].token_count[2]
                /\ benchmarking_results[i].total_generation_time
                       = seed_file.items[i].total_generation_time[2]
                /\ benchmarking_results[i].timestamp
                       = fromisoformat(seed_file.items[i].timestamp[2]).value

C9_Witness ==
    /\ pc = "aborted"
    /\ Len(benchmarking_results) = 2
    /\ Len(seed_file.items) = 3

\* C10: compute_average is never called with an empty sequence: whenever a
\* request reached it, the sequence passed held a record, and a 404 was
\* raised without calling it.
C10_NeverAveragesEmpty ==
    Served =>
        /\ Resp.agg_arg # <<>> => Len(Resp.agg_arg[1]) > 0
        /\ "compute_average" \in Resp.touched <=> Resp.agg_arg # <<>>
        /\ Resp.status = 404 => Resp.agg_arg = <<>>

C10_Witness ==
    /\ Served /\ IsGetWindow
    /\ Resp.agg_arg # <<>>
    /\ Len(Resp.agg_arg[1]) = 1
    /\ Len(benchmarking_results) = 3

=============================================================================
